---- MODULE Spec2Model ----
(***************************************************************************)
(* Model of process_receipts_tax.py: the per-file receipt pipeline         *)
(* (extract -> parse with model fallback -> allocate tax -> append to the  *)
(* ledger -> archive | errors), the JSON-substring extraction of the       *)
(* parser and the proportional tax allocation.                             *)
(*                                                                         *)
(* Text is modelled as sequences of one-character strings (file names) or  *)
(* of tokens (model responses). Amounts are integers counted in            *)
(* 1/UnitsPerCent of a cent; a tax share is the exact rational num/den.    *)
(***************************************************************************)
EXTENDS Integers, Sequences, FiniteSets, TLC

(***************************************************************************)
(* Bounds of the model.                                                    *)
(***************************************************************************)
\* Largest number of entries os.listdir returns for the watched folder.
MaxEntries == 2
\* Largest number of tokens of a model response.
MaxRespLen == 4
\* Largest number of items of a receipt in the allocation specification.
MaxItems == 2
\* Amount resolution: units per cent (prices may carry sub-cent digits).
UnitsPerCent == 2

(***************************************************************************)
(* Generic helpers.                                                        *)
(***************************************************************************)
Range(s) == {s[i] : i \in 1..Len(s)}

SeqsUpTo(S, n) == UNION {[1..k -> S] : k \in 0..n}

RECURSIVE SumSeq(_)
SumSeq(s) == IF s = <<>> THEN 0 ELSE s[1] + SumSeq(Tail(s))

Cents(c) == c * UnitsPerCent

(***************************************************************************)
(* File names: is_image_file (lines 49-50) and the eligibility filter.     *)
(***************************************************************************)
\* str.lower() on the characters that occur in the modelled names.
LowerChar(c) ==
    CASE c = "P" -> "p"
      [] c = "D" -> "d"
      [] c = "F" -> "f"
      [] c = "J" -> "j"
      [] c = "G" -> "g"
      [] OTHER -> c

Lower(s) == [i \in 1..Len(s) |-> LowerChar(s[i])]

EndsWith(s, suf) ==
    /\ Len(suf) <= Len(s)
    /\ SubSeq(s, Len(s) - Len(suf) + 1, Len(s)) = suf

ImageExtensions ==
    { <<".", "j", "p", "g">>, <<".", "j", "p", "e", "g">>, <<".", "p", "n", "g">>,
      <<".", "h", "e", "i", "c">>, <<".", "w", "e", "b", "p">>, <<".", "p", "d", "f">> }

is_image_file(filename) == \E ext \in ImageExtensions : EndsWith(Lower(filename), ext)

RunLogName == <<"r", "u", "n", "_", "l", "o", "g", ".", "t", "x", "t">>

\* Directory entries the watched folder may hold: name and whether
\* os.path.isfile is true of it.
DirEntries ==
    { [name |-> <<"a", ".", "j", "p", "g">>, isfile |-> TRUE],
      [name |-> <<"b", ".", "P", "D", "F">>, isfile |-> TRUE],
      [name |-> <<"c", ".", "t", "x", "t">>, isfile |-> TRUE],
      [name |-> <<"d", ".", "p", "n", "g">>, isfile |-> FALSE],
      [name |-> RunLogName, isfile |-> TRUE] }

FileNames == {e.name : e \in DirEntries}

IsFile(name) == \E e \in DirEntries : e.name = name /\ e.isfile

\* Mutant: the filter without os.path.isfile.
EligibleNoFileCheck(name) ==
    /\ name # RunLogName
    /\ is_image_file(name)

\* The filter of lines 194-197.
Eligible(name) ==
    /\ ~(~IsFile(name) \/ name = RunLogName)
    /\ is_image_file(name)

(***************************************************************************)
(* parse_receipt_with_gpt (lines 80-139): one attempt per model of         *)
(* models_to_try.  A response is a sequence of tokens:                     *)
(*   "{" and "}"  braces,                                                  *)
(*   "k"          a member: a key and colon, followed either by a nested   *)
(*                object or by an (implied) scalar value,                  *)
(*   "t"          any other text.                                          *)
(***************************************************************************)
models_to_try == <<"gpt-4-turbo", "gpt-3.5-turbo">>

Tokens == {"{", "}", "k", "t"}

Responses == SeqsUpTo(Tokens, MaxRespLen)

Positions(s, tok) == {i \in 1..Len(s) : s[i] = tok}

MinOf(S) == CHOOSE x \in S : \A y \in S : x <= y
MaxOf(S) == CHOOSE x \in S : \A y \in S : x >= y

\* The empty sequence stands for "re.search returned None".
NoMatch == <<>>

\* Mutant: a non-greedy search, from the first "{" to the first "}" after it.
ReSearchJsonLazy(content) ==
    LET opens == Positions(content, "{")
        after == IF opens = {} THEN {}
                 ELSE {i \in Positions(content, "}") : i > MinOf(opens)}
    IN  IF after = {} THEN NoMatch
        ELSE SubSeq(content, MinOf(opens), MinOf(after))

\* re.search(r'\{.*\}', content, re.DOTALL) (line 126): leftmost "{",
\* then greedily up to the last "}" of the whole response.
ReSearchJson(content) ==
    LET opens  == Positions(content, "{")
        closes == Positions(content, "}")
    IN  IF opens = {} \/ closes = {} THEN NoMatch
        ELSE IF MaxOf(closes) < MinOf(opens) THEN NoMatch
        ELSE SubSeq(content, MinOf(opens), MaxOf(closes))

\* json.loads (line 129) as a recursive-descent parse of the token grammar
\*   object ::= "{" member* "}"      member ::= "k" [ object ]
\* ObjectEnd gives the position after the object that starts at i, 0 if
\* there is none.
RECURSIVE ObjectEnd(_, _), MembersEnd(_, _)
ObjectEnd(s, i) ==
    IF i > Len(s) \/ s[i] # "{" THEN 0 ELSE MembersEnd(s, i + 1)

MembersEnd(s, j) ==
    IF j > Len(s) THEN 0
    ELSE IF s[j] = "}" THEN j + 1
    ELSE IF s[j] = "k"
         THEN IF j + 1 <= Len(s) /\ s[j + 1] = "{"
              THEN LET e == ObjectEnd(s, j + 1)
                   IN  IF e = 0 THEN 0 ELSE MembersEnd(s, e)
              ELSE MembersEnd(s, j + 1)
    ELSE 0

JsonLoadsOk(json_str) == ObjectEnd(json_str, 1) = Len(json_str) + 1

(***************************************************************************)
(* Exceptions: a type and the message str(e) as a sequence of strings.     *)
(***************************************************************************)
NoExc == [type |-> "none", msg |-> <<>>]

OpenAIErr    == [type |-> "OpenAIError", msg |-> <<"Connection error.">>]
NoJsonErr    == [type |-> "ValueError", msg |-> <<"No JSON object found in response">>]
JsonDecodeErr == [type |-> "JSONDecodeError", msg |-> <<"Expecting value">>]
ExtractErr   == [type |-> "ExtractionError", msg |-> <<"cannot read file">>]
WriteErr     == [type |-> "HttpError", msg |-> <<"append failed">>]
LogErr       == [type |-> "OSError", msg |-> <<"cannot write run_log.txt">>]
EncodeErr    == [type |-> "UnicodeEncodeError", msg |-> <<"codec can't encode character">>]
MoveErr      == [type |-> "OSError", msg |-> <<"cannot move file">>]
NotFoundErr  == [type |-> "FileNotFoundError", msg |-> <<"No such file or directory">>]

ZeroDivisionErr == [type |-> "ZeroDivisionError", msg |-> <<"float division by zero">>]

KeyErr(key) == [type |-> "KeyError", msg |-> <<key>>]

\* Line 139: the terminal error carries str(last_err) in its message.
AllFailedErr(last_err) ==
    [type |-> "RuntimeError",
     msg  |-> <<"All model attempts failed. Last error: ">> \o last_err.msg]

\* The error lines 126-129 raise for a response, NoExc if it deserializes.
ResponseError(content) ==
    IF ReSearchJson(content) = NoMatch THEN NoJsonErr
    ELSE IF ~JsonLoadsOk(ReSearchJson(content)) THEN JsonDecodeErr
    ELSE NoExc

\* What lines 126-129 do over all the responses a model may give.
ResponseErrors == {ResponseError(content) : content \in Responses}

(***************************************************************************)
(* Receipts as json.loads returns them, and append_to_google_sheets        *)
(* (lines 142-177).  A key that the dictionary lacks is Absent (numbers)   *)
(* or Missing (strings).  "Total amount" is read at line 148 and never     *)
(* used, so it is left out.                                                *)
(***************************************************************************)
Absent == -1
Missing == "<missing>"

Prices == {0, Cents(500), Cents(1500), Cents(333) + 1}

TaxTotals == {0, Cents(1), Cents(200)}

ItemNames == {"Bananas", "Shampoo"}

\* Items with every key, and items that lack one of the keys read with [].
GoodItems ==
    [Item : ItemNames, Category : {"Groceries"}, Price : Prices, Taxable : BOOLEAN]

BadItems ==
    { [Item |-> "Bananas", Category |-> "Groceries", Price |-> Absent, Taxable |-> TRUE],
      [Item |-> "Bananas", Category |-> "Groceries", Price |-> Absent, Taxable |-> FALSE],
      [Item |-> Missing, Category |-> "Groceries", Price |-> Cents(500), Taxable |-> TRUE],
      [Item |-> "Shampoo", Category |-> Missing, Price |-> Cents(500), Taxable |-> FALSE] }

ReceiptsOver(items, n) ==
    [Store : {"Acme"}, Date : {"2024-01-31"}, Tax : TaxTotals \cup {Absent},
     HasItems : {TRUE}, Items : SeqsUpTo(items, n)]
    \cup
    [Store : {"Acme"}, Date : {"2024-01-31"}, Tax : {Cents(200)},
     HasItems : {FALSE}, Items : {<<>>}]

\* Mutant: a receipt without "Tax total" is taxed 1.00.
tax_total_default_one(receipt_data) ==
    IF receipt_data.Tax = Absent THEN Cents(100) ELSE receipt_data.Tax

\* receipt_data.get("Tax total", 0.0), line 145.
tax_total(receipt_data) == IF receipt_data.Tax = Absent THEN 0 ELSE receipt_data.Tax

\* Line 151.
taxable_items(receipt_data) == SelectSeq(receipt_data.Items, LAMBDA i : i.Taxable)

PriceSeq(items) == [i \in 1..Len(items) |-> items[i].Price]

\* Mutant: the subtotal taken over all items, taxable or not.
taxable_subtotal_all(receipt_data) ==
    IF SumSeq(PriceSeq(receipt_data.Items)) = 0 THEN Cents(100)
    ELSE SumSeq(PriceSeq(receipt_data.Items))

\* Mutant: no substitute divisor when the taxable prices sum to zero.
taxable_subtotal_nodefault(receipt_data) ==
    SumSeq(PriceSeq(taxable_items(receipt_data)))

\* Line 152: sum(...) or 1.0; the substitute 1.0 is one currency unit.
taxable_subtotal(receipt_data) ==
    IF SumSeq(PriceSeq(taxable_items(receipt_data))) = 0 THEN Cents(100)
    ELSE SumSeq(PriceSeq(taxable_items(receipt_data)))

\* The first error one iteration of the loop of lines 154-170 raises, in
\* the order the code evaluates: item["Price"] (155), the division (158,
\* for a taxable item only), item["Item"] (165), item["Category"] (166);
\* NoExc when the row is built.
ItemError(item, receipt_data) ==
    IF item.Price = Absent THEN KeyErr("'Price'")
    ELSE IF item.Taxable /\ taxable_subtotal(receipt_data) = 0 THEN ZeroDivisionErr
    ELSE IF item.Item = Missing THEN KeyErr("'Item'")
    ELSE IF item.Category = Missing THEN KeyErr("'Category'")
    ELSE NoExc

\* The first error lines 143-170 raise: receipt_data["Items"] (151), the
\* sum of i["Price"] over the taxable items (152), then the loop.
AllocationError(receipt_data) ==
    IF ~receipt_data.HasItems THEN KeyErr("'Items'")
    ELSE IF \E i \in 1..Len(taxable_items(receipt_data)) :
                taxable_items(receipt_data)[i].Price = Absent
         THEN KeyErr("'Price'")
    ELSE LET bad == {i \in 1..Len(receipt_data.Items) :
                        ItemError(receipt_data.Items[i], receipt_data) # NoExc}
         IN  IF bad = {} THEN NoExc
             ELSE ItemError(receipt_data.Items[MinOf(bad)], receipt_data)

\* Mutant: every item gets a share, taxable or not.
tax_share_num_all(item, receipt_data) == item.Price * tax_total(receipt_data)

\* Line 158: tax_share = (price / taxable_subtotal) * tax_total if taxable
\* else 0, kept exact as the rational
\*   tax_share_num(item, r) / tax_share_den(item, r)
\* (0 is 0/1).
tax_share_num(item, receipt_data) ==
    IF item.Taxable THEN item.Price * tax_total(receipt_data) ELSE 0

tax_share_den(item, receipt_data) ==
    IF item.Taxable THEN taxable_subtotal(receipt_data) ELSE 1

\* Mutant: truncation instead of rounding.
Round2Floor(num, den, up) == (num \div (den * UnitsPerCent)) * UnitsPerCent

\* round(x, 2) of x = num/den units (line 159): the nearest whole cent.
\* A value exactly half way between two cents goes either way (up): the
\* binary float that stands for it lies on one side or the other.
Round2(num, den, up) ==
    LET cell == den * UnitsPerCent
        q    == num \div cell
        r    == num % cell
    IN  (IF 2 * r < cell THEN q
         ELSE IF 2 * r > cell THEN q + 1
         ELSE IF up THEN q + 1 ELSE q) * UnitsPerCent

\* Line 159: price_w_tax = round(price + tax_share, 2).
price_w_tax(item, receipt_data, up) ==
    Round2(item.Price * tax_share_den(item, receipt_data)
               + tax_share_num(item, receipt_data),
           tax_share_den(item, receipt_data), up)

\* Mutant: the rows are built from the last item to the first.
item_rows_reversed(receipt_data, receipt_id, ups) ==
    [i \in 1..Len(receipt_data.Items) |->
        LET item == receipt_data.Items[Len(receipt_data.Items) + 1 - i]
        IN  [receipt_id  |-> receipt_id,
             store       |-> receipt_data.Store,
             date        |-> receipt_data.Date,
             item        |-> item.Item,
             category    |-> item.Category,
             price       |-> item.Price,
             taxable     |-> item.Taxable,
             price_w_tax |-> price_w_tax(item, receipt_data, ups[i])]]

\* Lines 154-170: one row of 8 columns per item, in item order.
item_rows(receipt_data, receipt_id, ups) ==
    [i \in 1..Len(receipt_data.Items) |->
        [receipt_id  |-> receipt_id,
         store       |-> receipt_data.Store,
         date        |-> receipt_data.Date,
         item        |-> receipt_data.Items[i].Item,
         category    |-> receipt_data.Items[i].Category,
         price       |-> receipt_data.Items[i].Price,
         taxable     |-> receipt_data.Items[i].Taxable,
         price_w_tax |-> price_w_tax(receipt_data.Items[i], receipt_data, ups[i])]]

(***************************************************************************)
(* State of one run of process_all_receipts (lines 185-210).               *)
(***************************************************************************)
VARIABLES
    pc,           \* position of the run
    loc,          \* where each directory entry is: absent, watched, archive, errors
    listing,      \* what os.listdir returned (line 192)
    idx,          \* index in listing of the current filename
    ocr_text,     \* line 201
    model_idx,    \* index in models_to_try of the attempt to make next
    last_err,     \* line 114 / 136
    parsed,       \* line 129, the dictionary the parser is about to return
    receipt_data, \* line 202
    receipt_id,   \* line 203
    rows,         \* item_rows, lines 144-170
    tax_shares,   \* the tax_share of every item (line 158), as num/den
    exc,          \* the exception in flight
    ledger,       \* the append requests the sheet accepted, in order
    log,          \* the lines of run_log.txt, in order
    attempts,     \* history: the backend calls made for the current file
    stages,       \* history: per file, the steps performed on it
    moves,        \* history: per file, the number of moves performed
    raised,       \* history: per file, the step that raised and its exception
    content,      \* line 123, the response under examination (SpecSearch; in
                  \* the run a response is known by what lines 126-129 make of it)
    json_str      \* line 126, the matched substring (SpecSearch)

vars == <<pc, loc, listing, idx, ocr_text, model_idx, last_err, parsed, receipt_data,
          receipt_id, rows, tax_shares, exc, ledger, log, attempts, stages, moves,
          raised, content, json_str>>

\* The receipts the models answer with in the pipeline: the two scenarios
\* of the allocation, an empty receipt and two malformed ones.
PipelineReceipts ==
    { [Store |-> "Acme", Date |-> "2024-01-31", Tax |-> Cents(200), HasItems |-> TRUE,
       Items |-> << [Item |-> "Bananas", Category |-> "Groceries",
                     Price |-> Cents(500), Taxable |-> TRUE],
                    [Item |-> "Shampoo", Category |-> "Groceries",
                     Price |-> Cents(1500), Taxable |-> TRUE] >>],
      [Store |-> "Acme", Date |-> "2024-01-31", Tax |-> Cents(1), HasItems |-> TRUE,
       Items |-> << [Item |-> "Bananas", Category |-> "Groceries",
                     Price |-> Cents(500), Taxable |-> FALSE],
                    [Item |-> "Shampoo", Category |-> "Groceries",
                     Price |-> Cents(333) + 1, Taxable |-> TRUE] >>],
      [Store |-> "Acme", Date |-> "2024-01-31", Tax |-> Absent, HasItems |-> TRUE,
       Items |-> <<>>],
      [Store |-> "Acme", Date |-> "2024-01-31", Tax |-> Cents(200), HasItems |-> FALSE,
       Items |-> <<>>],
      [Store |-> "Acme", Date |-> "2024-01-31", Tax |-> Cents(200), HasItems |-> TRUE,
       Items |-> << [Item |-> "Bananas", Category |-> "Groceries",
                     Price |-> Cents(500), Taxable |-> TRUE],
                    [Item |-> "Shampoo", Category |-> Missing,
                     Price |-> Cents(500), Taxable |-> FALSE] >>] }

\* generate_receipt_id (lines 46-47): six hex digits of a random uuid.
ReceiptIds == {"RCT-1A2B3C", "RCT-4D5E6F"}

NoReceipt == [Store |-> "", Date |-> "", Tax |-> Absent, HasItems |-> FALSE,
              Items |-> <<>>]

\* Lines of run_log.txt (log_message, lines 179-182), without the timestamp.
ParsedLine(model_name) ==
    [kind |-> "parsed", file |-> <<>>, text |-> <<model_name>>]
\* Mutant: the success line without the receipt id.
SuccessLineNoId(filename, id) ==
    [kind |-> "archived", file |-> filename, text |-> <<>>]

SuccessLine(filename, id) ==
    [kind |-> "archived", file |-> filename, text |-> <<id>>]
FailureLine(filename, e) ==
    [kind |-> "failed", file |-> filename, text |-> e.msg]

filename == listing[idx]

\* The end of one iteration of the loop of line 192.  The locals of the
\* iteration are dead from here on (each is assigned again before it is
\* read), so they are put back to their initial values.
EndIteration ==
    /\ pc' = "next"
    /\ ocr_text' = ""
    /\ model_idx' = 1
    /\ last_err' = NoExc
    /\ parsed' = NoReceipt
    /\ receipt_data' = NoReceipt
    /\ receipt_id' = ""
    /\ rows' = <<>>
    /\ tax_shares' = <<>>
    /\ exc' = NoExc
    /\ attempts' = <<>>

Did(stage) == stages' = [stages EXCEPT ![filename] = Append(@, stage)]

NotRaised == [stage |-> "none", exc |-> NoExc]

\* An exception leaves the step `stage` of the try block: line 207 catches it.
Raise(stage, e) ==
    /\ exc' = e
    /\ raised' = [raised EXCEPT ![filename] = [stage |-> stage, exc |-> e]]
    /\ pc' = "except"

RunInit(files, l, i, data) ==
    /\ loc = [n \in FileNames |-> IF n \in files THEN "watched" ELSE "absent"]
    /\ listing = l
    /\ idx = i
    /\ ocr_text = ""
    /\ model_idx = 1
    /\ last_err = NoExc
    /\ parsed = NoReceipt
    /\ receipt_data = data
    /\ receipt_id = ""
    /\ rows = <<>>
    /\ tax_shares = <<>>
    /\ exc = NoExc
    /\ ledger = <<>>
    /\ log = <<>>
    /\ attempts = <<>>
    /\ stages = [n \in FileNames |-> <<>>]
    /\ moves = [n \in FileNames |-> 0]
    /\ raised = [n \in FileNames |-> NotRaised]

\* The watched folder before the run: any MaxEntries or fewer of the entries.
Init ==
    /\ pc = "start"
    /\ \E files \in SUBSET FileNames :
          /\ Cardinality(files) <= MaxEntries
          /\ RunInit(files, <<>>, 0, NoReceipt)
    /\ content = <<>>
    /\ json_str = NoMatch

\* Lines 186-192: the folders are made and the watched folder is listed, in
\* whatever order the file system gives.
ListDir ==
    /\ pc = "start"
    /\ \E l \in SeqsUpTo(FileNames, MaxEntries) :
          /\ Range(l) = {n \in FileNames : loc[n] = "watched"}
          /\ Len(l) = Cardinality(Range(l))
          /\ listing' = l
    /\ pc' = "next"
    /\ UNCHANGED <<loc, idx, ocr_text, model_idx, last_err, parsed, receipt_data, receipt_id,
                   rows, tax_shares, exc, ledger, log, attempts, stages, moves, raised>>
    /\ UNCHANGED <<content, json_str>>

\* Line 192: the listing is exhausted.
LoopEnd ==
    /\ pc = "next"
    /\ idx = Len(listing)
    /\ pc' = "done"
    /\ UNCHANGED <<loc, listing, idx, ocr_text, model_idx, last_err, parsed, receipt_data,
                   receipt_id, rows, tax_shares, exc, ledger, log, attempts, stages,
                   moves, raised>>
    /\ UNCHANGED <<content, json_str>>

\* Lines 192-197: the next entry is not eligible: continue.
SkipEntry ==
    /\ pc = "next"
    /\ idx < Len(listing)
    /\ ~Eligible(listing[idx + 1])
    /\ idx' = idx + 1
    /\ UNCHANGED <<pc, loc, listing, ocr_text, model_idx, last_err, parsed, receipt_data,
                   receipt_id, rows, tax_shares, exc, ledger, log, attempts, stages,
                   moves, raised>>
    /\ UNCHANGED <<content, json_str>>

\* Lines 192-200: the next entry is eligible: its try block is entered.
StartFile ==
    /\ pc = "next"
    /\ idx < Len(listing)
    /\ Eligible(listing[idx + 1])
    /\ idx' = idx + 1
    /\ pc' = "extract"
    /\ UNCHANGED <<loc, listing, ocr_text, model_idx, last_err, parsed, receipt_data,
                   receipt_id, rows, tax_shares, exc, ledger, log, attempts, stages,
                   moves, raised>>
    /\ UNCHANGED <<content, json_str>>

\* Line 201, extract_text_from_image returns (an empty text is no error).
ExtractOk ==
    /\ pc = "extract"
    /\ ocr_text' \in {"", "TOTAL 20.00"}
    /\ Did("extract")
    \* line 202 calls the parser, which begins at lines 81-114
    /\ model_idx' = 1
    /\ last_err' = NoExc
    /\ pc' = "parse"
    /\ UNCHANGED <<loc, listing, idx, parsed, receipt_data, receipt_id, rows,
                   tax_shares, exc, ledger, log, attempts, moves, raised>>
    /\ UNCHANGED <<content, json_str>>

\* Line 201 raises (I/O or decode error).
ExtractRaises ==
    /\ pc = "extract"
    /\ Did("extract")
    /\ Raise("extract", ExtractErr)
    /\ UNCHANGED <<loc, listing, idx, ocr_text, model_idx, last_err, parsed, receipt_data,
                   receipt_id, rows, tax_shares, ledger, log, attempts, moves>>
    /\ UNCHANGED <<content, json_str>>

(***************************************************************************)
(* parse_receipt_with_gpt, the loop of lines 115-139.                      *)
(***************************************************************************)
\* One record of the history: the model called, whether its response gave a
\* deserializable JSON object (and which), and the error that ended the
\* attempt (NoExc if none).
Attempt(err, json, data) ==
    [model |-> models_to_try[model_idx], err |-> err, json |-> json, data |-> data]

\* Mutant: only the first error is kept.
NextLastErrFirst(prev, e) == IF prev = NoExc THEN e ELSE prev

\* Line 136: last_err = e.
NextLastErr(prev, e) == e

\* Mutant: a failed attempt is made again on the same model.
AttemptFailedRetry(e) ==
    /\ last_err' = NextLastErr(last_err, e)
    /\ model_idx' = model_idx
    /\ attempts' = Append(attempts, Attempt(e, FALSE, NoReceipt))
    /\ Did("parse")
    /\ UNCHANGED <<pc, loc, listing, idx, ocr_text, parsed, receipt_data, receipt_id,
                   rows, tax_shares, exc, ledger, log, moves, raised>>

\* Lines 135-137: the attempt failed with an error the except clause names.
AttemptFailed(e) ==
    /\ last_err' = NextLastErr(last_err, e)
    /\ model_idx' = model_idx + 1
    /\ attempts' = Append(attempts, Attempt(e, FALSE, NoReceipt))
    /\ Did("parse")
    /\ UNCHANGED <<pc, loc, listing, idx, ocr_text, parsed, receipt_data, receipt_id,
                   rows, tax_shares, exc, ledger, log, moves, raised>>

\* Lines 123-129 ran to the end: parsed holds the dictionary.
AttemptSucceeded(data) ==
    /\ parsed' = data
    /\ attempts' = Append(attempts, Attempt(NoExc, TRUE, data))
    /\ Did("parse")
    /\ pc' = "parse_log"
    /\ UNCHANGED <<loc, listing, idx, ocr_text, model_idx, last_err, receipt_data,
                   receipt_id, rows, tax_shares, exc, ledger, log, moves, raised>>

\* Lines 117-122 raise OpenAIError.
BackendRaises ==
    /\ pc = "parse"
    /\ model_idx <= Len(models_to_try)
    /\ AttemptFailed(OpenAIErr)
    /\ UNCHANGED <<content, json_str>>

\* Mutant: a failed attempt ends the parse instead of moving to the next model.
BackendRespondsNoFallback ==
    /\ pc = "parse"
    /\ model_idx <= Len(models_to_try)
    /\ \E e \in ResponseErrors :
          IF e = NoExc
          THEN \E data \in PipelineReceipts : AttemptSucceeded(data)
          ELSE /\ Raise("parse", e)
               /\ attempts' = Append(attempts, Attempt(e, FALSE, NoReceipt))
               /\ Did("parse")
               /\ UNCHANGED <<loc, listing, idx, ocr_text, model_idx, last_err, parsed,
                              receipt_data, receipt_id, rows, tax_shares, ledger, log,
                              moves>>
    /\ UNCHANGED <<content, json_str>>

\* Mutant: the loop goes on after a success, the last success wins.
BackendRespondsNoReturn ==
    /\ pc = "parse"
    /\ model_idx <= Len(models_to_try)
    /\ \E e \in ResponseErrors :
          IF e = NoExc
          THEN \E data \in PipelineReceipts :
                  /\ parsed' = data
                  /\ attempts' = Append(attempts, Attempt(NoExc, TRUE, data))
                  /\ Did("parse")
                  /\ model_idx' = model_idx + 1
                  /\ pc' = IF model_idx = Len(models_to_try) THEN "parse_log" ELSE "parse"
                  /\ UNCHANGED <<loc, listing, idx, ocr_text, last_err, receipt_data,
                                 receipt_id, rows, tax_shares, exc, ledger, log, moves, raised>>
          ELSE AttemptFailed(e)
    /\ UNCHANGED <<content, json_str>>

\* Lines 117-129: the call returns a response; the JSON substring is
\* searched and deserialized, which succeeds or raises ValueError /
\* JSONDecodeError.
BackendResponds ==
    /\ pc = "parse"
    /\ model_idx <= Len(models_to_try)
    /\ \E e \in ResponseErrors :
          IF e = NoExc
          THEN \E data \in PipelineReceipts : AttemptSucceeded(data)
          ELSE AttemptFailed(e)
    /\ UNCHANGED <<content, json_str>>

\* Line 139: every model was tried and failed.
ParseAllFailed ==
    /\ pc = "parse"
    /\ model_idx > Len(models_to_try)
    /\ Raise("parse", AllFailedErr(last_err))
    /\ UNCHANGED <<loc, listing, idx, ocr_text, model_idx, last_err, parsed,
                   receipt_data, receipt_id, rows, tax_shares, ledger, log, attempts,
                   stages, moves>>
    /\ UNCHANGED <<content, json_str>>

\* Lines 131-133 and the assignment of line 202: the line is logged and the
\* dictionary returned.
ParseReturn ==
    /\ pc = "parse_log"
    /\ log' = Append(log, ParsedLine(models_to_try[model_idx]))
    /\ receipt_data' = parsed
    /\ pc' = "genid"
    /\ UNCHANGED <<loc, listing, idx, ocr_text, model_idx, last_err, parsed, receipt_id,
                   rows, tax_shares, exc, ledger, attempts, stages, moves, raised>>
    /\ UNCHANGED <<content, json_str>>

\* Line 203.
GenerateId ==
    /\ pc = "genid"
    /\ receipt_id' \in ReceiptIds
    /\ pc' = "allocate"
    /\ UNCHANGED <<loc, listing, idx, ocr_text, model_idx, last_err, parsed,
                   receipt_data, rows, tax_shares, exc, ledger, log, attempts, stages,
                   moves, raised>>
    /\ UNCHANGED <<content, json_str>>

(***************************************************************************)
(* append_to_google_sheets, lines 142-177.                                 *)
(***************************************************************************)
\* Lines 143-170 build item_rows.
AllocateOk ==
    /\ pc = "allocate"
    /\ AllocationError(receipt_data) = NoExc
    /\ \E ups \in [1..Len(receipt_data.Items) -> BOOLEAN] :
          rows' = item_rows(receipt_data, receipt_id, ups)
    /\ tax_shares' = [i \in 1..Len(receipt_data.Items) |->
                        [num |-> tax_share_num(receipt_data.Items[i], receipt_data),
                         den |-> tax_share_den(receipt_data.Items[i], receipt_data)]]
    /\ Did("allocate")
    /\ pc' = "append"
    /\ UNCHANGED <<loc, listing, idx, ocr_text, model_idx, last_err, parsed,
                   receipt_data, receipt_id, exc, ledger, log, attempts, moves, raised>>
    /\ UNCHANGED <<content, json_str>>

\* Mutant: each row is sent as soon as it is built, so the rows of the
\* items before the malformed one reach the ledger.
AllocateRaisesPartial ==
    /\ pc = "allocate"
    /\ AllocationError(receipt_data) # NoExc
    /\ Raise("allocate", AllocationError(receipt_data))
    /\ Did("allocate")
    /\ LET good == {k \in 0..Len(receipt_data.Items) :
                      \A i \in 1..k : ItemError(receipt_data.Items[i], receipt_data) = NoExc}
           built == [receipt_data EXCEPT !.Items = SubSeq(@, 1, MaxOf(good))]
       IN  ledger' = IF receipt_data.HasItems /\ MaxOf(good) > 0
                     THEN Append(ledger,
                                 [file   |-> filename,
                                  values |-> item_rows(built, receipt_id,
                                                       [i \in 1..MaxOf(good) |-> TRUE])])
                     ELSE ledger
    /\ UNCHANGED <<loc, listing, idx, ocr_text, model_idx, last_err, parsed,
                   receipt_data, receipt_id, rows, tax_shares, log, attempts, moves>>
    /\ UNCHANGED <<content, json_str>>

\* Lines 143-170 raise KeyError: the receipt lacks a key.
AllocateRaises ==
    /\ pc = "allocate"
    /\ AllocationError(receipt_data) # NoExc
    /\ Raise("allocate", AllocationError(receipt_data))
    /\ Did("allocate")
    /\ UNCHANGED <<loc, listing, idx, ocr_text, model_idx, last_err, parsed,
                   receipt_data, receipt_id, rows, tax_shares, ledger, log, attempts,
                   moves>>
    /\ UNCHANGED <<content, json_str>>

\* Lines 172-177: the one append request is accepted.
AppendOk ==
    /\ pc = "append"
    /\ ledger' = Append(ledger, [file |-> filename, values |-> rows])
    /\ Did("append")
    /\ pc' = "archive"
    /\ UNCHANGED <<loc, listing, idx, ocr_text, model_idx, last_err, parsed,
                   receipt_data, receipt_id, rows, tax_shares, exc, log, attempts, moves, raised>>
    /\ UNCHANGED <<content, json_str>>

\* Mutant: the failure of the request is swallowed.
AppendRaisesSwallowed ==
    /\ pc = "append"
    /\ Did("append")
    /\ pc' = "archive"
    /\ UNCHANGED <<loc, listing, idx, ocr_text, model_idx, last_err, parsed,
                   receipt_data, receipt_id, rows, tax_shares, exc, ledger, log,
                   attempts, moves, raised>>
    /\ UNCHANGED <<content, json_str>>

\* Lines 172-177: the request fails (network, auth, quota).
AppendRaises ==
    /\ pc = "append"
    /\ Raise("append", WriteErr)
    /\ Did("append")
    /\ UNCHANGED <<loc, listing, idx, ocr_text, model_idx, last_err, parsed,
                   receipt_data, receipt_id, rows, tax_shares, ledger, log, attempts,
                   moves>>
    /\ UNCHANGED <<content, json_str>>

(***************************************************************************)
(* The end of the try block and the except block, lines 205-210.           *)
(***************************************************************************)
MoveTo(folder) ==
    /\ loc' = [loc EXCEPT ![filename] = folder]
    /\ moves' = [moves EXCEPT ![filename] = @ + 1]
    /\ Did(folder)

ArchiveTarget == "archive"

\* Line 205: shutil.move into archive/.
ArchiveMove ==
    /\ pc = "archive"
    /\ MoveTo(ArchiveTarget)
    /\ pc' = "log_ok"
    /\ UNCHANGED <<listing, idx, ocr_text, model_idx, last_err, parsed, receipt_data,
                   receipt_id, rows, tax_shares, exc, ledger, log, attempts, raised>>
    /\ UNCHANGED <<content, json_str>>

\* Line 206: the success line.
LogSuccess ==
    /\ pc = "log_ok"
    /\ log' = Append(log, SuccessLine(filename, receipt_id))
    /\ EndIteration
    /\ UNCHANGED <<loc, listing, idx, ledger, stages, moves, raised>>
    /\ UNCHANGED <<content, json_str>>

\* Mutant: a failed file stays where it is.
ErrorTargetStay == "watched"

ErrorTarget == "errors"

\* Line 208: shutil.move into errors/, the file being still in the watched
\* folder.
ExceptMove ==
    /\ pc = "except"
    /\ loc[filename] = "watched"
    /\ MoveTo(ErrorTarget)
    /\ pc' = "except_log"
    /\ UNCHANGED <<listing, idx, ocr_text, model_idx, last_err, parsed, receipt_data,
                   receipt_id, rows, tax_shares, exc, ledger, log, attempts, raised>>
    /\ UNCHANGED <<content, json_str>>

\* Mutant: the failure line carries no message.
FailureTextNone(e) == <<>>

\* The text of the failure line, line 209: str(e).
FailureText(e) == e.msg

\* Lines 209-210: the failure line; the loop goes on.
ExceptLog ==
    /\ pc = "except_log"
    /\ log' = Append(log, [FailureLine(filename, exc) EXCEPT !.text = FailureText(exc)])
    /\ EndIteration
    /\ UNCHANGED <<loc, listing, idx, ledger, stages, moves, raised>>
    /\ UNCHANGED <<content, json_str>>

(***************************************************************************)
(* Failures of the local file system inside the loop: the move into        *)
(* archive/ and the writes of run_log.txt.                                 *)
(***************************************************************************)
\* Line 132 raises OSError, which line 135 does not catch: it leaves the
\* parser.
ParseLogRaises ==
    /\ pc = "parse_log"
    /\ Raise("parse", LogErr)
    /\ attempts' = [attempts EXCEPT ![Len(attempts)].err = LogErr]
    /\ UNCHANGED <<loc, listing, idx, ocr_text, model_idx, last_err, parsed,
                   receipt_data, receipt_id, rows, tax_shares, ledger, log, stages,
                   moves>>
    /\ UNCHANGED <<content, json_str>>

\* Line 132 raises UnicodeEncodeError (the line holds an emoji, the file is
\* opened with the locale's encoding).  It is a ValueError, so line 135
\* catches it and the loop goes on to the next model.
ParseLogCaught ==
    /\ pc = "parse_log"
    /\ last_err' = NextLastErr(last_err, EncodeErr)
    /\ model_idx' = model_idx + 1
    /\ attempts' = [attempts EXCEPT ![Len(attempts)].err = EncodeErr]
    /\ pc' = "parse"
    /\ UNCHANGED <<loc, listing, idx, ocr_text, parsed, receipt_data, receipt_id, rows,
                   tax_shares, exc, ledger, log, stages, moves, raised>>
    /\ UNCHANGED <<content, json_str>>

\* Line 205 raises; the file stays in the watched folder.
ArchiveMoveRaises ==
    /\ pc = "archive"
    /\ Raise("archive", MoveErr)
    /\ Did("archive_failed")
    /\ UNCHANGED <<loc, listing, idx, ocr_text, model_idx, last_err, parsed,
                   receipt_data, receipt_id, rows, tax_shares, ledger, log, attempts,
                   moves>>
    /\ UNCHANGED <<content, json_str>>

\* Line 206 raises after the file was archived.
LogSuccessRaises ==
    /\ pc = "log_ok"
    /\ Raise("log", LogErr)
    /\ UNCHANGED <<loc, listing, idx, ocr_text, model_idx, last_err, parsed,
                   receipt_data, receipt_id, rows, tax_shares, ledger, log, attempts,
                   stages, moves>>
    /\ UNCHANGED <<content, json_str>>

\* Line 208 with the file no longer in the watched folder: shutil.move
\* raises FileNotFoundError inside the except block, so it leaves the loop
\* and process_all_receipts.
ExceptMoveRaises ==
    /\ pc = "except"
    /\ loc[filename] # "watched"
    /\ exc' = NotFoundErr
    /\ pc' = "aborted"
    /\ UNCHANGED <<loc, listing, idx, ocr_text, model_idx, last_err, parsed,
                   receipt_data, receipt_id, rows, tax_shares, ledger, log, attempts,
                   stages, moves, raised>>
    /\ UNCHANGED <<content, json_str>>

\* Line 209 raises inside the except block: the run is left.
ExceptLogRaises ==
    /\ pc = "except_log"
    /\ exc' = LogErr
    /\ pc' = "aborted"
    /\ UNCHANGED <<loc, listing, idx, ocr_text, model_idx, last_err, parsed,
                   receipt_data, receipt_id, rows, tax_shares, ledger, log, attempts,
                   stages, moves, raised>>
    /\ UNCHANGED <<content, json_str>>

(***************************************************************************)
(* Specifications.                                                         *)
(***************************************************************************)
\* One run.  Every call to a collaborator or to the file system inside the
\* loop may fail: extraction, the model backends, a malformed receipt, the
\* ledger append, the move into archive/, the writes of the log.
Next ==
    \/ ListDir \/ LoopEnd \/ SkipEntry \/ StartFile
    \/ ExtractOk \/ ExtractRaises
    \/ BackendRaises \/ BackendResponds \/ ParseAllFailed
    \/ ParseReturn \/ ParseLogRaises \/ ParseLogCaught
    \/ GenerateId
    \/ AllocateOk \/ AllocateRaises
    \/ AppendOk \/ AppendRaises
    \/ ArchiveMove \/ ArchiveMoveRaises
    \/ LogSuccess \/ LogSuccessRaises
    \/ ExceptMove \/ ExceptMoveRaises
    \/ ExceptLog \/ ExceptLogRaises

Spec == Init /\ [][Next]_vars

\* append_to_google_sheets alone, on every receipt of up to MaxItems items.
InitAlloc ==
    /\ pc = "allocate"
    /\ \E data \in ReceiptsOver(GoodItems \cup BadItems, MaxItems) :
          RunInit({<<"a", ".", "j", "p", "g">>}, << <<"a", ".", "j", "p", "g">> >>, 1, data)
    /\ content = <<>>
    /\ json_str = NoMatch

NextAlloc == AllocateOk \/ AllocateRaises

SpecAlloc == InitAlloc /\ [][NextAlloc]_vars

\* append_to_google_sheets whole: the rows are built and the one append
\* request is made, on every receipt of up to MaxItems items.
NextSheets == AllocateOk \/ AllocateRaises \/ AppendOk \/ AppendRaises

SpecSheets == InitAlloc /\ [][NextSheets]_vars

(***************************************************************************)
(* Properties of the run.                                                  *)
(***************************************************************************)
\* The eligible files of the listing.
EligibleNames == {n \in FileNames : Eligible(n)}

Listed == Range(listing) \cap EligibleNames

PositionOf(n) == CHOOSE i \in 1..Len(listing) : listing[i] = n

\* The iteration of file n is over: the loop is past it.
IterationOver(n) ==
    \/ PositionOf(n) < idx
    \/ PositionOf(n) = idx /\ pc \in {"next", "done"}

\* The iteration of file n was left by an exception out of the except block.
IterationAborted(n) == PositionOf(n) = idx /\ pc = "aborted"

RunOver == pc \in {"done", "aborted"}

HasLine(line) == \E i \in 1..Len(log) : log[i] = line

StageErrors == {"extract", "parse", "allocate", "append"}

\* The run was left by the write of a failure line raising (line 209, in
\* the except block and so outside the try block).
LeftByFailureLine == pc = "aborted" /\ exc = LogErr

\* C1: in one run, every eligible file the run listed is moved exactly
\* once and ends in exactly one of archive/ and errors/: it is never moved
\* a second time and, the run over, it is not left in the watched folder.
\* (A run left by the write of a failure line raising is not counted.)
C1_MovedExactlyOnce ==
    /\ \A n \in Listed : moves[n] <= 1
    /\ (RunOver /\ ~LeftByFailureLine)
       => \A n \in Listed :
             /\ moves[n] = 1
             /\ loc[n] \in {"archive", "errors"}

C3_TryFailureNeverAborts ==
    /\ pc = "aborted" => LeftByFailureLine
    /\ pc = "done" => \A n \in Listed : loc[n] \in {"archive", "errors"}

\* The run of C3's failing input: the file was appended to the ledger and
\* archived, the write of its success line raised, so the move of the
\* except block raised and left the run with a later file not visited.
C3_AbortAfterArchive ==
    /\ pc = "aborted"
    /\ loc[filename] = "archive"
    /\ raised[filename] = [stage |-> "log", exc |-> LogErr]
    /\ \E n \in Listed : loc[n] = "watched" /\ stages[n] = <<>>

\* The steps of a file come in the order extract, parse (one per model
\* tried), allocate, append, archive.
StageOrderOk(st) ==
    \A i \in 1..Len(st) :
        CASE st[i] = "extract"  -> i = 1
          [] st[i] = "parse"    -> i > 1 /\ st[i - 1] \in {"extract", "parse"}
          [] st[i] = "allocate" -> i > 1 /\ st[i - 1] = "parse"
          [] st[i] = "append"   -> i > 1 /\ st[i - 1] = "allocate"
          [] st[i] \in {"archive", "archive_failed"} -> i > 1 /\ st[i - 1] = "append"
          [] OTHER -> TRUE

InLedger(n) == \E i \in 1..Len(ledger) : ledger[i].file = n

\* C4: for every file the stages happen in the order extract, parse,
\* allocate, ledger append, and a file is in archive/ only if the ledger
\* accepted its append request earlier in the run.
C4_ArchiveAfterAppend ==
    \A n \in FileNames :
        /\ StageOrderOk(stages[n])
        /\ loc[n] = "archive" => InLedger(n)

\* Witness of C4: a file went through every stage, the second model having
\* parsed it, and is in archive/ with its rows in the ledger.
C4_Witness ==
    \E n \in Listed :
        /\ stages[n] = <<"extract", "parse", "parse", "allocate", "append", "archive">>
        /\ loc[n] = "archive"
        /\ InLedger(n)

InOrder ==
    /\ Len(attempts) <= Len(models_to_try)
    /\ \A i \in 1..Len(attempts) : attempts[i].model = models_to_try[i]

LastAttempt == attempts[Len(attempts)]

ParserReturned(data) ==
    /\ receipt_data = data
    /\ raised[filename].stage # "parse"
    /\ pc = "genid" => exc = NoExc

\* C5: the models are tried in the order of models_to_try; no
\* model is called after one whose response gave a deserializable JSON
\* object; the parser returns the receipt of that response, and raises
\* nothing.
C5_FirstJsonReturned ==
    /\ InOrder
    /\ \A i \in 1..(Len(attempts) - 1) : ~attempts[i].json
    /\ (attempts # <<>> /\ LastAttempt.json)
       => \/ pc = "parse_log" /\ parsed = LastAttempt.data
          \/ ParserReturned(LastAttempt.data)

\* What the parser does guarantee: the models are tried in the order of
\* models_to_try; the parser returns the receipt of the first model whose
\* response gave a deserializable JSON object and whose "Parsed using" log
\* line was then written without error; no model is called after that, and
\* the errors of the attempts before it are not raised to the caller.
FirstLoggedSuccessReturned ==
    /\ InOrder
    /\ \A i \in 1..(Len(attempts) - 1) : attempts[i].err # NoExc
    /\ pc \in {"genid", "allocate", "append", "archive", "log_ok"}
       => attempts # <<>> /\ LastAttempt.err = NoExc
    /\ (attempts # <<>> /\ LastAttempt.err = NoExc)
       => /\ LastAttempt.json
          /\ \/ pc = "parse_log" /\ parsed = LastAttempt.data
             \/ /\ ParserReturned(LastAttempt.data)
                /\ HasLine(ParsedLine(LastAttempt.model))

\* The fallback at work: the first model raised, the second one answered with a
\* JSON object, and the parser has returned its receipt.
FallbackReturned ==
    /\ pc = "genid"
    /\ Len(attempts) = 2
    /\ attempts[1].err = OpenAIErr
    /\ attempts[2].err = NoExc
    /\ receipt_data = attempts[2].data
    /\ receipt_data \in PipelineReceipts

BackendFailures == {OpenAIErr, NoJsonErr, JsonDecodeErr}

\* C6: after an attempt on a model that is not the last failed (the call
\* raised, no JSON object was found, or it did not deserialize), the error
\* is recorded in last_err and the next model is tried: either the next
\* attempt was made, or the parser is about to make it, no exception raised.
C6_FallsThroughToNext ==
    \A i \in 1..Len(attempts) :
        (i < Len(models_to_try) /\ attempts[i].err \in BackendFailures)
        => \/ Len(attempts) > i
           \/ /\ Len(attempts) = i
              /\ pc = "parse"
              /\ model_idx = i + 1
              /\ last_err = attempts[i].err
              /\ exc = NoExc
              /\ raised[filename] = NotRaised

\* Witness of C6: the first model's response held no JSON object, and the
\* second model was called.
C6_Witness ==
    /\ Len(attempts) = 2
    /\ attempts[1].err = NoJsonErr
    /\ attempts[2].model = "gpt-3.5-turbo"

\* The same with a response whose JSON substring does not deserialize.
C6_WitnessDecode ==
    /\ Len(attempts) = 2
    /\ attempts[1].err = JsonDecodeErr

\* The same with a call that raised.
C6_WitnessCall ==
    /\ Len(attempts) = 2
    /\ attempts[1].err = OpenAIErr

\* Every model was tried and every attempt ended in the except clause of
\* line 135.
AllAttemptsFailed ==
    /\ Len(attempts) = Len(models_to_try)
    /\ \A i \in 1..Len(attempts) : attempts[i].err \in BackendFailures \cup {EncodeErr}

\* C7: when every model has failed, the parser raises RuntimeError, whose
\* message ends with the message of the error of the last model tried, and
\* no receipt is returned.
C7_AllFailedRaises ==
    (AllAttemptsFailed /\ pc # "parse")
    => /\ pc \in {"except", "except_log", "aborted"}
       /\ raised[filename].stage = "parse"
       /\ raised[filename].exc.type = "RuntimeError"
       /\ raised[filename].exc.msg = <<"All model attempts failed. Last error: ">>
                                        \o LastAttempt.err.msg
       /\ pc = "except" => exc = raised[filename].exc
       /\ receipt_data = NoReceipt

\* Witness of C7: the first model raised, the second answered without a
\* JSON object, and the RuntimeError carries the second error.
C7_Witness ==
    /\ pc = "except"
    /\ AllAttemptsFailed
    /\ attempts[1].err = OpenAIErr
    /\ attempts[2].err = NoJsonErr
    /\ exc.msg = <<"All model attempts failed. Last error: ",
                   "No JSON object found in response">>

(***************************************************************************)
(* Properties of the allocation (append_to_google_sheets, lines 143-170),  *)
(* read in the state that follows it.  Prices and tax totals are not       *)
(* negative.                                                               *)
(***************************************************************************)
Abs(x) == IF x < 0 THEN -x ELSE x

Items == receipt_data.Items

TaxableIdx == {i \in 1..Len(Items) : Items[i].Taxable}

\* The receipt's taxTotal and the sum of the prices of its taxable items.
TaxTotal == IF receipt_data.Tax = Absent THEN 0 ELSE receipt_data.Tax

RECURSIVE SumOver(_, _)
SumOver(f, S) ==
    IF S = {} THEN 0
    ELSE LET x == CHOOSE y \in S : TRUE IN f[x] + SumOver(f, S \ {x})

TaxableSubtotal == SumOver([i \in 1..Len(Items) |-> Items[i].Price], TaxableIdx)

WellFormed ==
    /\ receipt_data.HasItems
    /\ \A i \in 1..Len(Items) :
          /\ Items[i].Price # Absent
          /\ Items[i].Item # Missing
          /\ Items[i].Category # Missing

Allocated == pc = "append" /\ Len(tax_shares) = Len(Items)

\* C8: for a receipt with taxableSubtotal > 0, the sum over the taxable
\* items of taxShare equals taxTotal within 0.01 times the item count.
\* (The shares num/den of the taxable items have one denominator d, so the
\* sum is (sum of num)/d.)
C8_SharesSumToTax ==
    (Allocated /\ TaxableSubtotal > 0)
    => \E d \in {tax_shares[i].den : i \in TaxableIdx} :
          /\ d > 0
          /\ \A i \in TaxableIdx : tax_shares[i].den = d
          /\ Abs(SumOver([i \in 1..Len(Items) |-> tax_shares[i].num], TaxableIdx)
                    - TaxTotal * d)
                <= Cents(1) * Len(Items) * d

\* Witness of C8: two taxable items of different prices and a tax of 2.00
\* have been allocated.
C8_Witness ==
    /\ Allocated
    /\ Len(Items) = 2
    /\ Items[1].Taxable /\ Items[2].Taxable
    /\ Items[1].Price = Cents(500) /\ Items[2].Price = Cents(1500)
    /\ TaxTotal = Cents(200)
    /\ tax_shares[1].num # 0

\* The divisor of the algorithm: the taxable subtotal, 1.0 in its place
\* when it is zero.
Divisor == IF TaxableSubtotal = 0 THEN Cents(100) ELSE TaxableSubtotal

\* C9: for every taxable item of any receipt, taxShare is
\* (price / taxableSubtotal) * taxTotal, the divisor being the taxable
\* subtotal (1.0 when that is zero), and the row's tax-inclusive price is
\* price + taxShare rounded to 2 decimal places: a whole number of cents
\* at most half a cent away.  Prices 5.00 and 15.00 with tax 2.00 give
\* 5.50 and 16.50.
C9_ProportionalShare ==
    Allocated
    => /\ Len(rows) = Len(Items)
       /\ \A i \in TaxableIdx :
             /\ tax_shares[i] = [num |-> Items[i].Price * TaxTotal, den |-> Divisor]
             /\ rows[i].price_w_tax % Cents(1) = 0
             /\ 2 * Abs(rows[i].price_w_tax * tax_shares[i].den
                          - (Items[i].Price * tax_shares[i].den + tax_shares[i].num))
                   <= Cents(1) * tax_shares[i].den
       /\ (/\ Len(Items) = 2
           /\ Items[1].Taxable /\ Items[2].Taxable
           /\ Items[1].Price = Cents(500) /\ Items[2].Price = Cents(1500)
           /\ TaxTotal = Cents(200))
          => /\ rows[1].price_w_tax = Cents(550)
             /\ rows[2].price_w_tax = Cents(1650)

\* Witness of C9: the scenario 5.00 and 15.00 with tax 2.00 was allocated
\* and gave the rows 5.50 and 16.50.
C9_Witness ==
    /\ Allocated
    /\ Len(Items) = 2
    /\ Items[1].Taxable /\ Items[2].Taxable
    /\ Items[1].Price = Cents(500) /\ Items[2].Price = Cents(1500)
    /\ TaxTotal = Cents(200)
    /\ rows[1].price_w_tax = Cents(550)
    /\ rows[2].price_w_tax = Cents(1650)

\* C10: when the taxable subtotal is 0 (no taxable item, or every taxable
\* item priced at zero), the allocation of a receipt that has all its keys
\* raises nothing (no division by zero) and the taxShare of every item is
\* 0, whatever the taxTotal.
C10_ZeroSubtotal ==
    (pc # "allocate" /\ WellFormed /\ TaxableSubtotal = 0)
    => /\ Allocated
       /\ exc = NoExc
       /\ \A i \in 1..Len(Items) : tax_shares[i].num = 0 /\ tax_shares[i].den # 0

\* Witness of C10: a taxable item priced at zero next to an untaxed one,
\* with a tax of 2.00, was allocated.
C10_Witness ==
    /\ Allocated
    /\ TaxableSubtotal = 0
    /\ TaxTotal = Cents(200)
    /\ Len(Items) = 2
    /\ Items[1].Taxable /\ ~Items[2].Taxable
    /\ Items[2].Price = Cents(500)

\* The same with no taxable item at all.
C10_WitnessNoTaxable ==
    /\ Allocated
    /\ TaxTotal = Cents(200)
    /\ Len(Items) = 2
    /\ TaxableIdx = {}

(***************************************************************************)
(* Untaxed items and untaxed receipts.                                     *)
(***************************************************************************)
\* x is amount p rounded to 2 decimal places: a whole number of cents at
\* most half a cent from p (p itself when p is a whole number of cents).
RoundedToCents(x, p) ==
    /\ x % Cents(1) = 0
    /\ 2 * Abs(x - p) <= Cents(1)

\* C11: for any receipt, every item with taxable = false gets taxShare = 0
\* and a tax-inclusive price equal to its pre-tax price, whatever the
\* taxTotal and the other items.
C11_UntaxedKeepsPrice ==
    Allocated
    => \A i \in 1..Len(Items) :
          ~Items[i].Taxable
          => /\ tax_shares[i].num = 0
             /\ rows[i].price_w_tax = Items[i].Price

\* C11 as amended: every item with taxable = false gets taxShare = 0 and a
\* tax-inclusive price equal to its pre-tax price rounded to 2 decimal
\* places (the pre-tax price itself when that has no more than 2 decimals),
\* whatever the taxTotal and the other items.
C11_UntaxedRoundedPrice ==
    Allocated
    => \A i \in 1..Len(Items) :
          ~Items[i].Taxable
          => /\ tax_shares[i].num = 0
             /\ tax_shares[i].den # 0
             /\ RoundedToCents(rows[i].price_w_tax, Items[i].Price)
             /\ Items[i].Price % Cents(1) = 0
                => rows[i].price_w_tax = Items[i].Price

\* Witness of C11: an untaxed item of 5.00 next to a taxed one, with a tax
\* of 2.00, keeps 5.00.
C11_Witness ==
    /\ Allocated
    /\ Len(Items) = 2
    /\ ~Items[1].Taxable /\ Items[1].Price = Cents(500)
    /\ Items[2].Taxable /\ Items[2].Price = Cents(1500)
    /\ TaxTotal = Cents(200)
    /\ rows[1].price_w_tax = Cents(500)
    /\ rows[2].price_w_tax = Cents(1700)

\* An untaxed item whose price has a third decimal: its tax-inclusive
\* price is not its price.
C11_WitnessSubCent ==
    /\ Allocated
    /\ Len(Items) = 1
    /\ ~Items[1].Taxable /\ Items[1].Price = Cents(333) + 1
    /\ rows[1].price_w_tax # Items[1].Price

\* C12: for any receipt whose taxTotal is 0 (given as 0 or left out), every
\* item's tax-inclusive price equals its pre-tax price, taxable or not.
C12_NoTaxKeepsPrice ==
    (Allocated /\ TaxTotal = 0)
    => \A i \in 1..Len(Items) : rows[i].price_w_tax = Items[i].Price

\* C12 as amended: for any receipt whose taxTotal is 0, every item's
\* tax-inclusive price equals its pre-tax price rounded to 2 decimal places
\* (the pre-tax price itself when that has no more than 2 decimals),
\* taxable or not.
C12_NoTaxRoundedPrice ==
    (Allocated /\ TaxTotal = 0)
    => \A i \in 1..Len(Items) :
          /\ tax_shares[i].num = 0
          /\ tax_shares[i].den # 0
          /\ RoundedToCents(rows[i].price_w_tax, Items[i].Price)
          /\ Items[i].Price % Cents(1) = 0
             => rows[i].price_w_tax = Items[i].Price

\* Witness of C12: a receipt without "Tax total", one item taxable and one
\* not; both keep their prices.
C12_Witness ==
    /\ Allocated
    /\ receipt_data.Tax = Absent
    /\ Len(Items) = 2
    /\ Items[1].Taxable /\ Items[1].Price = Cents(500)
    /\ ~Items[2].Taxable /\ Items[2].Price = Cents(1500)
    /\ rows[1].price_w_tax = Cents(500)
    /\ rows[2].price_w_tax = Cents(1500)

\* The same with "Tax total": 0 and two taxable items.
C12_WitnessZero ==
    /\ Allocated
    /\ receipt_data.Tax = 0
    /\ Len(Items) = 2
    /\ Items[1].Taxable /\ Items[2].Taxable
    /\ Items[1].Price = Cents(500)
    /\ rows[1].price_w_tax = Cents(500)

(***************************************************************************)
(* Properties of the rows sent to the ledger (append_to_google_sheets,     *)
(* lines 142-177).                                                         *)
(***************************************************************************)
\* The rows v are one per item of the receipt, in item order.
RowsMatchItems(v) ==
    /\ Len(v) = Len(Items)
    /\ \A i \in 1..Len(Items) :
          /\ v[i].item = Items[i].Item
          /\ v[i].category = Items[i].Category
          /\ v[i].price = Items[i].Price
          /\ v[i].taxable = Items[i].Taxable

\* C13: for any receipt whose allocation succeeds, the rows sent to the
\* ledger are exactly one row per item, in the original item order: the
\* row count is the item count and the i-th row carries the name,
\* category, price and taxable flag of the i-th item.
C13_OneRowPerItem ==
    /\ Allocated => RowsMatchItems(rows)
    /\ \A k \in 1..Len(ledger) : RowsMatchItems(ledger[k].values)

\* Witness of C13: the ledger accepted the two rows of a receipt whose two
\* items differ in name, price and flag.
C13_Witness ==
    /\ pc = "archive"
    /\ Len(ledger) = 1
    /\ Len(ledger[1].values) = 2
    /\ ledger[1].values[1].item = "Bananas"
    /\ ledger[1].values[2].item = "Shampoo"
    /\ ledger[1].values[1].price = Cents(1500)
    /\ ledger[1].values[2].price = Cents(500)
    /\ ledger[1].values[1].taxable /\ ~ledger[1].values[2].taxable

(***************************************************************************)
(* Properties of the entries the run does not process.                     *)
(***************************************************************************)
\* The entries of DirEntries that are not eligible: a file without a
\* receipt extension, a directory (named like a receipt) and the run log.
IneligibleEntries ==
    { <<"c", ".", "t", "x", "t">>, <<"d", ".", "p", "n", "g">>, RunLogName }

\* An outcome line of the log names n.
Mentioned(n) == \E i \in 1..Len(log) : log[i].file = n

\* C14: the entries that are not eligible (directories, run_log.txt, files
\* without a recognized receipt extension) are left untouched by a run:
\* never extracted (no step at all is performed on them), never moved,
\* never written to the ledger, never named in an outcome log line; the
\* file the loop is working on is never one of them.
C14_IneligibleUntouched ==
    /\ \A n \in IneligibleEntries :
          /\ stages[n] = <<>>
          /\ moves[n] = 0
          /\ loc[n] \in {"watched", "absent"}
          /\ n \in Range(listing) => loc[n] = "watched"
          /\ ~InLedger(n)
          /\ ~Mentioned(n)
    /\ pc \notin {"start", "next", "done"} => filename \notin IneligibleEntries

\* Witness of C14: the run is over; it listed a directory named d.png and
\* a receipt, archived the receipt and left the directory where it was.
C14_Witness ==
    /\ pc = "done"
    /\ <<"d", ".", "p", "n", "g">> \in Range(listing)
    /\ loc[<<"d", ".", "p", "n", "g">>] = "watched"
    /\ \E n \in Listed : loc[n] = "archive" /\ Mentioned(n)

\* The same with run_log.txt, and with a file that is no receipt.
C14_WitnessRunLog ==
    /\ pc = "done"
    /\ RunLogName \in Range(listing)
    /\ \E n \in Listed : loc[n] = "errors" /\ Mentioned(n)

C14_WitnessOtherFile ==
    /\ pc = "done"
    /\ <<"c", ".", "t", "x", "t">> \in Range(listing)
    /\ \E n \in Listed : loc[n] = "archive"

(***************************************************************************)
(* Properties of the outcome lines of run_log.txt.                         *)
(***************************************************************************)
\* The positions in the log of the outcome lines of file n.
OutcomeLines(n) ==
    {i \in 1..Len(log) : log[i].file = n /\ log[i].kind \in {"archived", "failed"}}

\* The receipt ids the ledger rows of file n carry.
LedgerIds(n) ==
    UNION { {ledger[k].values[j].receipt_id : j \in 1..Len(ledger[k].values)} :
            k \in {k \in 1..Len(ledger) : ledger[k].file = n} }

\* File n has exactly one outcome line and it matches where the file is: a
\* success line with the receipt id of its ledger rows in archive/, a
\* failure line with the message of the exception in errors/.
OneMatchingOutcome(n) ==
    LET lines == OutcomeLines(n)
    IN
    /\ Cardinality(lines) = 1
    /\ \A i \in lines :
          \/ /\ loc[n] = "archive"
             /\ log[i].kind = "archived"
             /\ Len(log[i].text) = 1
             /\ log[i].text[1] \in ReceiptIds
             /\ LedgerIds(n) \subseteq {log[i].text[1]}
          \/ /\ loc[n] = "errors"
             /\ log[i].kind = "failed"
             /\ log[i].text = raised[n].exc.msg

InitSearch ==
    /\ pc = "search"
    /\ RunInit({<<"a", ".", "j", "p", "g">>}, << <<"a", ".", "j", "p", "g">> >>, 1, NoReceipt)
    /\ content \in Responses
    /\ json_str = NoMatch

\* Lines 126-128: the search; ValueError when nothing matches.
SearchJson ==
    /\ pc = "search"
    /\ json_str' = ReSearchJson(content)
    /\ IF ReSearchJson(content) = NoMatch
       THEN exc' = NoJsonErr /\ pc' = "attempt_failed"
       ELSE exc' = exc /\ pc' = "loads"
    /\ UNCHANGED <<loc, listing, idx, ocr_text, model_idx, last_err, parsed, receipt_data,
                   receipt_id, rows, tax_shares, ledger, log, attempts, stages, moves,
                   raised, content>>

\* Line 129: json.loads of the matched substring; JSONDecodeError when it
\* is not one JSON object.
LoadsJson ==
    /\ pc = "loads"
    /\ IF JsonLoadsOk(json_str)
       THEN exc' = exc /\ pc' = "loaded"
       ELSE exc' = JsonDecodeErr /\ pc' = "attempt_failed"
    /\ UNCHANGED <<loc, listing, idx, ocr_text, model_idx, last_err, parsed, receipt_data,
                   receipt_id, rows, tax_shares, ledger, log, attempts, stages, moves,
                   raised, content, json_str>>

NextSearch == SearchJson \/ LoadsJson

SpecSearch == InitSearch /\ [][NextSearch]_vars

\* The attempt on the response is over.
SearchOver == pc \in {"loaded", "attempt_failed"}

\* What the run makes of a response (ResponseError) is what lines 126-129
\* make of it.
ResponseErrorAgrees == SearchOver => exc = ResponseError(content)

\* The first balanced top-level JSON object of a response: the object that
\* starts at the first "{", NoMatch if no object starts there.
FirstBalancedObject(s) ==
    IF Positions(s, "{") = {} THEN NoMatch
    ELSE LET o == MinOf(Positions(s, "{"))
             e == ObjectEnd(s, o)
         IN  IF e = 0 THEN NoMatch ELSE SubSeq(s, o, e - 1)

\* C16: from a response the parser extracts the first balanced top-level
\* JSON object: whenever the response holds one (further text, with braces
\* or without, may follow it), the substring handed to json.loads is that
\* object and the attempt succeeds.
C16_FirstBalancedObject ==
    (pc \in {"loads", "loaded", "attempt_failed"} /\ FirstBalancedObject(content) # NoMatch)
    => /\ json_str = FirstBalancedObject(content)
       /\ pc # "attempt_failed"

\* The response of C16's failing input: a JSON object, then text that
\* holds braces; the substring is not the object and the attempt fails.
C16_BracesAfterObject ==
    /\ pc = "attempt_failed"
    /\ content = <<"{", "}", "{", "}">>
    /\ json_str = content
    /\ exc = JsonDecodeErr

\* What the search does hand over: everything from the first "{" to the
\* last "}" of the response.
GreedySpan ==
    (pc \in {"loads", "loaded"} \/ (pc = "attempt_failed" /\ exc = JsonDecodeErr))
    => /\ json_str # NoMatch
       /\ json_str[1] = "{" /\ json_str[Len(json_str)] = "}"
       /\ \E i \in 1..Len(content) :
             /\ SubSeq(content, i, i + Len(json_str) - 1) = json_str
             /\ \A j \in 1..(i - 1) : content[j] # "{"
             /\ \A j \in (i + Len(json_str))..Len(content) : content[j] # "}"

(***************************************************************************)
(* No work is done twice.                                                  *)
(***************************************************************************)
\* The number of times step x was performed, in the history st.
Count(st, x) == Cardinality({i \in 1..Len(st) : st[i] = x})

\* The file the loop is working on, if any.
InIteration == idx > 0 /\ pc \notin {"start", "next", "done"}

\* C17: within one run no work on a file is retried: each file is
\* extracted at most once, each model is called at most once for it (the
\* calls go down models_to_try, whose names differ), and at most one
\* append request is issued for it, whether the file succeeds or fails.
C17_NoRetry ==
    /\ \A n \in FileNames :
          /\ Count(stages[n], "extract") <= 1
          /\ Count(stages[n], "parse") <= Len(models_to_try)
          /\ Count(stages[n], "append") <= 1
          /\ Cardinality({k \in 1..Len(ledger) : ledger[k].file = n}) <= 1
    /\ InOrder
    /\ \A i, j \in 1..Len(attempts) : attempts[i].model = attempts[j].model => i = j
    /\ InIteration => Count(stages[filename], "parse") = Len(attempts)

\* Witness of C17: the run is over; for one file both models were called,
\* once each, and failed; the file is in errors/ and nothing more was done.
C17_Witness ==
    /\ pc = "done"
    /\ \E n \in Listed :
          /\ stages[n] = <<"extract", "parse", "parse", "errors">>
          /\ loc[n] = "errors"

\* The same for a file whose append request failed: one request, no more.
C17_WitnessAppendFailed ==
    /\ pc = "done"
    /\ \E n \in Listed :
          /\ stages[n] = <<"extract", "parse", "allocate", "append", "errors">>
          /\ raised[n].stage = "append"
          /\ ~InLedger(n)

(***************************************************************************)
(* The ledger against the folders.                                         *)
(***************************************************************************)
\* File n has contributed rows to the ledger.
HasRows(n) == \E k \in 1..Len(ledger) : ledger[k].file = n /\ ledger[k].values # <<>>

\* C18: a file that is in errors/ has contributed no rows to the ledger,
\* and at the end of the run the ledger holds rows only for files that
\* are in archive/.
C18_ErrorsHaveNoRows ==
    /\ \A n \in FileNames : loc[n] = "errors" => ~HasRows(n)
    /\ RunOver => \A n \in FileNames : HasRows(n) => loc[n] = "archive"

\* The run of C18's failing input: the ledger accepted the rows of a file,
\* the move into archive/ raised, and the run ended with the file in
\* errors/, its failure line written.
C18_RowsInErrors ==
    /\ pc = "done"
    /\ \E n \in Listed :
          /\ loc[n] = "errors"
          /\ HasRows(n)
          /\ raised[n] = [stage |-> "archive", exc |-> MoveErr]
          /\ HasLine(FailureLine(n, MoveErr))

\* What does hold: rows of a file that is in errors/ come from an append
\* that succeeded before the move into archive/ raised, and at the end of
\* the run every other file with rows is in archive/.
RowsInErrorsOnlyByMove ==
    /\ \A n \in FileNames :
          (loc[n] = "errors" /\ HasRows(n)) => raised[n].stage = "archive"
    /\ RunOver => \A n \in FileNames :
                     HasRows(n) => loc[n] = "archive" \/ raised[n].stage = "archive"

(***************************************************************************)
(* The rows of a malformed receipt.                                        *)
(***************************************************************************)
\* C19: the rows of one file reach the ledger all together or not at all:
\* if the receipt is malformed (no Items, or an item without Price, Item
\* or Category) the allocation raises KeyError before the append request
\* is issued, so the ledger is unchanged; and a request the ledger accepted
\* holds the rows of all the items.
C19_AllOrNothing ==
    /\ (~WellFormed /\ pc # "allocate")
       => /\ pc = "except"
          /\ raised[filename].stage = "allocate"
          /\ exc.type = "KeyError"
          /\ Count(stages[filename], "append") = 0
          /\ rows = <<>>
          /\ ledger = <<>>
    /\ pc = "except" => ledger = <<>>
    /\ \A k \in 1..Len(ledger) :
          /\ WellFormed
          /\ ledger[k].file = filename
          /\ Len(ledger[k].values) = Len(Items)

\* Witness of C19: the second item of a receipt has no Category; the row
\* of the first was built, KeyError was raised and nothing was appended.
C19_Witness ==
    /\ pc = "except"
    /\ Len(Items) = 2
    /\ Items[1].Category # Missing /\ Items[1].Item # Missing /\ Items[1].Price # Absent
    /\ Items[2].Category = Missing
    /\ exc = KeyErr("'Category'")
    /\ ledger = <<>>

\* The same for a receipt without Items.
C19_WitnessNoItems ==
    /\ pc = "except"
    /\ ~receipt_data.HasItems
    /\ exc = KeyErr("'Items'")
    /\ ledger = <<>>

====
